---- MODULE Spec2Model ----
(***************************************************************************)
(* Request-handling lifecycle of the FFmpeg audio converter service        *)
(* (src/server.js).  The file holds three transcoding handlers:            *)
(*   "convert"   POST /convert, first variant   (lines 17-128)             *)
(*   "convert2"  POST /convert, second variant  (lines 203-275)            *)
(*   "base64"    POST /convert-base64           (lines 130-177, 277-324)   *)
(* Every handler body is synchronous JavaScript (writeFileSync, execSync,  *)
(* readFileSync, unlinkSync, no await), so on Node's single event-loop     *)
(* thread a handler that has started runs to its end before any other      *)
(* handler runs.  The model keeps the steps of a handler apart (so that    *)
(* their order can be stated) and records the thread's occupant in the     *)
(* variable running.                                                       *)
(*                                                                         *)
(* Abstractions.  A uuid is an opaque token of Ids (all uuids have the     *)
(* same length, so a path is determined by <<id, role, extension>>).  A    *)
(* file name is a sequence of lexical tokens: maximal runs of word         *)
(* characters, and single non-word characters.  A byte is a number in      *)
(* 0..255, a base64 character is its 6-bit value, 64 standing for "=".     *)
(* The external tool is an opaque deterministic function of its encoder    *)
(* arguments, the output extension and the input bytes; whether it exits   *)
(* zero, whether it leaves an output file and what it prints are chosen    *)
(* nondeterministically.                                                   *)
(***************************************************************************)
EXTENDS Integers, Sequences, FiniteSets, TLC

\* ----------------------------------------------------------------- bounds
MaxReq == 2
MaxId == 2
MaxLen == 2

Requests == 1..MaxReq
Ids == 1..MaxId
ByteVals == {0, 77, 255}

\* ------------------------------------------------------------ JS helpers
Undefined == "<undefined>"

\* x || d : the default replaces every falsy value (undefined and '')
Or(x, d) == IF x = Undefined \/ x = "" THEN d ELSE x

\* destructuring default  { x = d } : only undefined is replaced
Default(x, d) == IF x = Undefined THEN d ELSE x

RECURSIVE SeqsUpTo(_, _)
SeqsUpTo(S, n) ==
    IF n = 0 THEN {<<>>}
    ELSE LET shorter == SeqsUpTo(S, n - 1)
         IN  shorter \cup {Append(s, x) : s \in shorter, x \in S}

\* ---------------------------------------------------------------- base64
Pad == 64

\* Buffer.prototype.toString('base64')
RECURSIVE Base64Encode(_)
Base64Encode(b) ==
    IF Len(b) = 0 THEN <<>>
    ELSE IF Len(b) = 1 THEN
        <<b[1] \div 4, (b[1] % 4) * 16, Pad, Pad>>
    ELSE IF Len(b) = 2 THEN
        <<b[1] \div 4, (b[1] % 4) * 16 + b[2] \div 16, (b[2] % 16) * 4, Pad>>
    ELSE
        <<b[1] \div 4, (b[1] % 4) * 16 + b[2] \div 16,
          (b[2] % 16) * 4 + b[3] \div 64, b[3] % 64>>
        \o Base64Encode(SubSeq(b, 4, Len(b)))

\* the characters before the first "="
RECURSIVE BeforePad(_)
BeforePad(s) ==
    IF Len(s) = 0 \/ s[1] = Pad THEN <<>>
    ELSE <<s[1]>> \o BeforePad(Tail(s))

RECURSIVE DecodeSextets(_)
DecodeSextets(s) ==
    IF Len(s) < 2 THEN <<>>
    ELSE IF Len(s) = 2 THEN <<s[1] * 4 + s[2] \div 16>>
    ELSE IF Len(s) = 3 THEN
        <<s[1] * 4 + s[2] \div 16, (s[2] % 16) * 16 + s[3] \div 4>>
    ELSE
        <<s[1] * 4 + s[2] \div 16, (s[2] % 16) * 16 + s[3] \div 4,
          (s[3] % 4) * 64 + s[4]>>
        \o DecodeSextets(SubSeq(s, 5, Len(s)))

\* Buffer.from(string, 'base64'): decoding stops at the padding, a dangling
\* single character yields no byte
Base64Decode(s) == DecodeSextets(BeforePad(s))

\* --------------------------------------------------------- static tables
Supported == {"ogg", "mp3", "opus", "m4a", "aac"}

InvalidFormatMsg == "Invalid format. Supported: ogg, mp3, opus, m4a, aac"
NoFileMsg == "No audio file provided"
NoDataMsg == "No audio data provided"

NonWord == {".", "-", " "}

\* originalname.match(/\.(\w+)$/): a dot followed by word characters only,
\* up to the end of the name
NameExt(name) ==
    IF Len(name) >= 2 /\ name[Len(name)] \notin NonWord /\ name[Len(name) - 1] = "."
    THEN name[Len(name)] ELSE ""

mimeToExt(m) ==
    CASE m \in {"audio/mpeg", "audio/mp3"} -> "mp3"
      [] m \in {"audio/wav", "audio/wave", "audio/x-wav"} -> "wav"
      [] m = "audio/ogg" -> "ogg"
      [] m = "audio/flac" -> "flac"
      [] m = "audio/aac" -> "aac"
      [] m \in {"audio/mp4", "audio/x-m4a"} -> "m4a"
      [] m \in {"audio/webm", "video/webm"} -> "webm"
      [] OTHER -> ""

contentTypes(f) ==
    CASE f = "mp3" -> "audio/mpeg"
      [] f = "ogg" -> "audio/ogg"
      [] f = "opus" -> "audio/opus"
      [] f = "m4a" -> "audio/mp4"
      [] f = "aac" -> "audio/aac"
      [] OTHER -> "audio/ogg"

\* ------------------------------------------------------------- requests
\* A request as the framework hands it to the handler: req.query / req.body
\* and req.file (multer.memoryStorage).  audio.t is "undef" (no field),
\* "str" (a string, audio.s its characters) or "num" (a truthy non-string).
Formats == {Undefined, "", "wav"} \cup Supported
Bitrates == {Undefined, "", "64k"}
Names == {<<>>, <<"a", ".", "wav">>, <<"a", "-", "wav">>}
Mimes == {"", "audio/mpeg", "text/plain"}
Buffers == SeqsUpTo(ByteVals, MaxLen)
NoAudio == [t |-> "undef", s |-> <<>>]
Audios ==
    {NoAudio, [t |-> "num", s |-> <<>>]}
    \cup {[t |-> "str", s |-> Base64Encode(b)] : b \in Buffers}
    \cup {[t |-> "str", s |-> s] : s \in {<<19>>, <<19, 16>>}}

NoContent ==
    [kind |-> "none", format |-> Undefined, bitrate |-> Undefined,
     hasFile |-> FALSE, originalname |-> <<>>, mimetype |-> "",
     buffer |-> <<>>, audio |-> NoAudio]

Upload(k, f, b, n, m, d) ==
    [kind |-> k, format |-> f, bitrate |-> b, hasFile |-> TRUE,
     originalname |-> n, mimetype |-> m, buffer |-> d, audio |-> NoAudio]

NoUpload(k, f, b) == [NoContent EXCEPT !.kind = k, !.format = f, !.bitrate = b]

JsonBody(f, b, a) ==
    [NoContent EXCEPT !.kind = "base64", !.format = f, !.bitrate = b, !.audio = a]

Contents ==
    {Upload(k, f, b, n, m, d) :
        k \in {"convert", "convert2"}, f \in Formats, b \in Bitrates,
        n \in Names, m \in Mimes, d \in Buffers}
    \cup {NoUpload(k, f, b) :
        k \in {"convert", "convert2"}, f \in Formats, b \in Bitrates}
    \cup {JsonBody(f, b, a) : f \in Formats, b \in Bitrates, a \in Audios}

\* the same payload sent to each handler, for the runs with several requests
SampleBytes == <<77, 255>>
ConcContents ==
    {Upload("convert", "opus", Undefined, <<>>, "", SampleBytes),
     JsonBody("opus", Undefined, [t |-> "str", s |-> Base64Encode(SampleBytes)])}

\* --------------------------------------------------- per-handler pieces
\* const format = req.query.format || 'ogg'   /   { format = 'ogg' } = req.body
EffFormat(c) ==
    IF c.kind = "base64" THEN Default(c.format, "ogg") ELSE Or(c.format, "ogg")

EffBitrate(c) ==
    IF c.kind = "base64" THEN Default(c.bitrate, "128k") ELSE Or(c.bitrate, "128k")

\* the early returns before the temp id is generated; "" when none is taken
ValidationErrorFileFirst(c) ==
    IF c.kind = "base64"
    THEN IF c.audio.t = "undef" \/ (c.audio.t = "str" /\ c.audio.s = <<>>)
         THEN NoDataMsg ELSE ""
    ELSE IF ~c.hasFile THEN NoFileMsg
    ELSE IF EffFormat(c) \notin Supported THEN InvalidFormatMsg
    ELSE ""

ValidationError(c) ==
    IF c.kind = "base64"
    THEN IF c.audio.t = "undef" \/ (c.audio.t = "str" /\ c.audio.s = <<>>)
         THEN NoDataMsg ELSE ""
    ELSE IF EffFormat(c) \notin Supported THEN InvalidFormatMsg
    ELSE IF ~c.hasFile THEN NoFileMsg
    ELSE ""

\* inputExt: first variant only; the other handlers write <id>_input
InputExt(c) ==
    IF c.kind # "convert" THEN ""
    ELSE IF NameExt(c.originalname) # "" THEN NameExt(c.originalname)
    ELSE mimeToExt(c.mimetype)

InputPathShared(id, ext) == <<0, "_input", ext>>

InputPath(id, ext) == <<id, "_input", ext>>

OutputPath(id, format) == <<id, "_output", format>>

\* the switch (format) building codecArgs
CodecArgs(kind, format, bitrate) ==
    IF kind = "base64"
    THEN CASE format = "mp3" -> [encoder |-> "libmp3lame", bitrate |-> bitrate]
           [] format = "ogg" -> [encoder |-> "libvorbis", bitrate |-> bitrate]
           [] OTHER -> [encoder |-> "libvorbis", bitrate |-> bitrate]
    ELSE CASE format = "mp3" -> [encoder |-> "libmp3lame", bitrate |-> bitrate]
           [] format = "ogg" -> [encoder |-> "libvorbis", bitrate |-> bitrate]
           [] format = "opus" -> [encoder |-> "libopus", bitrate |-> bitrate]
           [] format \in {"m4a", "aac"} -> [encoder |-> "aac", bitrate |-> bitrate]
           [] OTHER -> [encoder |-> "libvorbis", bitrate |-> bitrate]

NoCmd == [encoder |-> "", bitrate |-> ""]

\* ------------------------------------------------------ the external tool
EncoderCode(e) ==
    CASE e = "libmp3lame" -> 0 [] e = "libvorbis" -> 1
      [] e = "libopus" -> 2 [] OTHER -> 3

ExtCode(f) ==
    CASE f = "ogg" -> 0 [] f = "mp3" -> 1 [] f = "opus" -> 2 [] f = "m4a" -> 3
      [] f = "aac" -> 4 [] f = "wav" -> 5 [] OTHER -> 6

BitrateCode(b) == CASE b = "128k" -> 0 [] b = "64k" -> 1 [] OTHER -> 2

\* the bytes the tool leaves in the output file: one header byte that tells
\* the arguments apart, then the input
ToolOutput(args, ext, bytes) ==
    <<EncoderCode(args.encoder) * 64 + ExtCode(ext) * 4 + BitrateCode(args.bitrate)>>
    \o bytes

\* what the tool prints on failure; in the runs with several requests it
\* always prints something
Diags == {"", "ffmpeg: error"}
ConcDiags == {"ffmpeg: error"}

\* a text is <<fixed part, diagnostic part>>
Text(s) == <<s, "">>

\* the message of the error execSync throws: the command line, then what
\* the child wrote to the stderr pipe, if anything
ExecSyncMessage(stderr) == <<"Command failed", stderr>>

\* what reaches the stderr pipe: the second variant's command ends in 2>&1
StderrPipe(kind, diag) == IF kind = "convert2" THEN "" ELSE diag

\* ---------------------------------------------------------- file system
Exists(files, p) == \E f \in files : f.path = p

ReadFile(files, p) == (CHOOSE f \in files : f.path = p).data

WriteFile(files, p, d, o) ==
    {f \in files : f.path # p} \cup {[path |-> p, data |-> d, owner |-> o]}

Unlink(files, p) == {f \in files : f.path # p}

CleanupFsInputOnly(files, inP, outP, fail) ==
    IF fail = "input" THEN files ELSE Unlink(files, inP)

\* the finally block: one try around both unlinks, so a throw of the first
\* skips the second
CleanupFs(files, inP, outP, fail) ==
    IF fail = "input" THEN files
    ELSE IF fail = "output" THEN Unlink(files, inP)
    ELSE Unlink(Unlink(files, inP), outP)

\* ------------------------------------------------------------ responses
NoInput == [originalName |-> <<>>, mimetype |-> "", size |-> 0]

BaseResp ==
    [status |-> 0, keys |-> {}, error |-> Text(""), details |-> Text(""),
     input |-> NoInput, ctype |-> "", body |-> <<>>, audio |-> <<>>,
     format |-> "", size |-> 0]

JsonError(st, e) == [BaseResp EXCEPT !.status = st, !.keys = {"error"}, !.error = e]

\* the body sent from the catch (ffmpegError) block of the two /convert variants
ConversionFailed(c, stderr) ==
    IF c.kind = "convert"
    THEN [BaseResp EXCEPT
            !.status = 500, !.keys = {"error", "details", "input"},
            !.error = Text("Conversion failed"),
            !.details = IF stderr # "" THEN <<"", stderr>> ELSE ExecSyncMessage(stderr),
            !.input = [originalName |-> c.originalname, mimetype |-> c.mimetype,
                       size |-> Len(c.buffer)]]
    ELSE [BaseResp EXCEPT
            !.status = 500, !.keys = {"error", "details"},
            !.error = Text("Conversion failed"),
            !.details = ExecSyncMessage(stderr)]

\* the body sent from the outer catch (error) block
ServerError(c, e) ==
    IF c.kind = "base64" THEN JsonError(500, e)
    ELSE [BaseResp EXCEPT !.status = 500, !.keys = {"error", "details"},
                          !.error = Text("Server error"), !.details = e]

Success(c, data) ==
    IF c.kind = "base64"
    THEN [BaseResp EXCEPT !.status = 200, !.keys = {"audio", "format", "size"},
                          !.audio = Base64Encode(data), !.format = EffFormat(c),
                          !.size = Len(data)]
    ELSE [BaseResp EXCEPT !.status = 200, !.ctype = contentTypes(EffFormat(c)),
                          !.size = Len(data), !.body = data]

\* where control goes when execSync throws: the inner catch returns (and the
\* finally runs); /convert-base64 has no inner try, the outer catch takes it
AfterToolErrorSkipsFinally(kind) == IF kind = "base64" THEN "catch" ELSE "done"

AfterToolErrorIgnored(kind) == IF kind = "base64" THEN "catch" ELSE "read"

AfterToolError(kind) == IF kind = "base64" THEN "catch" ELSE "finally"

\* ------------------------------------------------------------------ state
VARIABLES
    inbox,      \* inbox[r]: the parsed request r, NoContent before it arrives
    pc,         \* pc[r]: where the handler of r stands
    running,    \* the request whose handler holds the event-loop thread, or 0
    tempId,     \* tempId[r]: the uuid generated for r, 0 before
    fs,         \* the scratch directory: records [path, data, owner]
    cmd,        \* cmd[r]: the codecArgs of the command line built for r
    exit,       \* exit[r]: the tool's exit status, -1 before it exited
    err,        \* err[r]: the message of the exception on its way to catch
    resp,       \* resp[r]: the responses sent for r, in order
    trace,      \* trace[r]: the steps the handler of r has taken, in order
    delFail     \* delFail[r]: which unlink of the cleanup threw, if any

vars == <<inbox, pc, running, tempId, fs, cmd, exit, err, resp, trace, delFail>>

Init ==
    /\ inbox = [r \in Requests |-> NoContent]
    /\ pc = [r \in Requests |-> "idle"]
    /\ running = 0
    /\ tempId = [r \in Requests |-> 0]
    /\ fs = {}
    /\ cmd = [r \in Requests |-> NoCmd]
    /\ exit = [r \in Requests |-> -1]
    /\ err = [r \in Requests |-> Text("")]
    /\ resp = [r \in Requests |-> <<>>]
    /\ trace = [r \in Requests |-> <<>>]
    /\ delFail = [r \in Requests |-> "none"]

InPath(r) == InputPath(tempId[r], InputExt(inbox[r]))

OutPath(r) == OutputPath(tempId[r], EffFormat(inbox[r]))

\* the bytes written to the input file
InputBytes(c) == IF c.kind = "base64" THEN Base64Decode(c.audio.s) ELSE c.buffer

LoopAlwaysFree == TRUE

\* a handler is entered only when no handler is running
LoopFree == running = 0

\* ---------------------------------------------------------------- actions
\* the framework has parsed request r (multer / express.json) and queues
\* its handler
Arrive(r, C) ==
    /\ pc[r] = "idle"
    /\ \E c \in C : inbox' = [inbox EXCEPT ![r] = c]
    /\ pc' = [pc EXCEPT ![r] = "queued"]
    /\ UNCHANGED <<running, tempId, fs, cmd, exit, err, resp, trace, delFail>>

\* handler entry up to the try: validation, uuidv4(), the two paths
Validate(r) ==
    /\ pc[r] = "queued"
    /\ LoopFree
    /\ IF ValidationError(inbox[r]) # ""
       THEN /\ resp' = [resp EXCEPT
                          ![r] = Append(@, JsonError(400, Text(ValidationError(inbox[r]))))]
            /\ trace' = [trace EXCEPT ![r] = Append(@, "respond")]
            /\ pc' = [pc EXCEPT ![r] = "done"]
            /\ UNCHANGED <<running, tempId>>
       ELSE /\ \E id \in Ids : tempId' = [tempId EXCEPT ![r] = id]
            /\ running' = r
            /\ pc' = [pc EXCEPT ![r] = "try"]
            /\ UNCHANGED <<resp, trace>>
    /\ UNCHANGED <<inbox, fs, cmd, exit, err, delFail>>

\* Buffer.from(audio, 'base64') (throws on a non-string) and writeFileSync
WriteInput(r) ==
    /\ pc[r] = "try"
    /\ running = r
    /\ IF inbox[r].kind = "base64" /\ inbox[r].audio.t # "str"
       THEN /\ err' = [err EXCEPT ![r] = Text("TypeError")]
            /\ pc' = [pc EXCEPT ![r] = "catch"]
            /\ UNCHANGED <<fs, trace>>
       ELSE \E ok \in BOOLEAN :
              IF ok
              THEN /\ fs' = WriteFile(fs, InPath(r), InputBytes(inbox[r]), r)
                   /\ trace' = [trace EXCEPT ![r] = Append(@, "write")]
                   /\ pc' = [pc EXCEPT ![r] = "exec"]
                   /\ UNCHANGED err
              ELSE /\ err' = [err EXCEPT ![r] = Text("ENOSPC")]
                   /\ pc' = [pc EXCEPT ![r] = "catch"]
                   /\ UNCHANGED <<fs, trace>>
    /\ UNCHANGED <<inbox, running, tempId, cmd, exit, resp, delFail>>

\* the command line is built and execSync starts the external process
ExecStart(r) ==
    /\ pc[r] = "exec"
    /\ running = r
    /\ cmd' = [cmd EXCEPT
                 ![r] = CodecArgs(inbox[r].kind, EffFormat(inbox[r]), EffBitrate(inbox[r]))]
    /\ trace' = [trace EXCEPT ![r] = Append(@, "exec")]
    /\ pc' = [pc EXCEPT ![r] = "transcoding"]
    /\ UNCHANGED <<inbox, running, tempId, fs, exit, err, resp, delFail>>

\* the external process exits and execSync returns or throws
ExecExit(r, D) ==
    /\ pc[r] = "transcoding"
    /\ running = r
    /\ \E status \in {0, 1}, produced \in BOOLEAN, diag \in D :
         /\ fs' = IF produced
                  THEN WriteFile(fs, OutPath(r),
                                 ToolOutput(cmd[r], EffFormat(inbox[r]),
                                            ReadFile(fs, InPath(r))), r)
                  ELSE fs
         /\ exit' = [exit EXCEPT ![r] = status]
         /\ trace' = [trace EXCEPT
                        ![r] = IF status = 0 \/ inbox[r].kind = "base64"
                               THEN Append(@, "exit")
                               ELSE @ \o <<"exit", "respond">>]
         /\ IF status = 0
            THEN /\ pc' = [pc EXCEPT ![r] = "read"]
                 /\ UNCHANGED <<err, resp>>
            ELSE /\ pc' = [pc EXCEPT ![r] = AfterToolError(inbox[r].kind)]
                 /\ IF inbox[r].kind = "base64"
                    THEN /\ err' = [err EXCEPT ![r] = ExecSyncMessage(diag)]
                         /\ UNCHANGED resp
                    ELSE /\ resp' = [resp EXCEPT
                                       ![r] = Append(@, ConversionFailed(inbox[r],
                                                  StderrPipe(inbox[r].kind, diag)))]
                         /\ UNCHANGED err
    /\ UNCHANGED <<inbox, running, tempId, cmd, delFail>>

\* readFileSync(outputPath) and the 200 response, or ENOENT
ReadOutput(r) ==
    /\ pc[r] = "read"
    /\ running = r
    /\ IF Exists(fs, OutPath(r))
       THEN /\ resp' = [resp EXCEPT
                          ![r] = Append(@, Success(inbox[r], ReadFile(fs, OutPath(r))))]
            /\ trace' = [trace EXCEPT ![r] = @ \o <<"read", "respond">>]
            /\ pc' = [pc EXCEPT ![r] = "finally"]
            /\ UNCHANGED err
       ELSE /\ err' = [err EXCEPT ![r] = Text("ENOENT")]
            /\ pc' = [pc EXCEPT ![r] = "catch"]
            /\ UNCHANGED <<resp, trace>>
    /\ UNCHANGED <<inbox, running, tempId, fs, cmd, exit, delFail>>

\* the outer catch (error) block
Catch(r) ==
    /\ pc[r] = "catch"
    /\ running = r
    /\ resp' = [resp EXCEPT ![r] = Append(@, ServerError(inbox[r], err[r]))]
    /\ trace' = [trace EXCEPT ![r] = Append(@, "respond")]
    /\ pc' = [pc EXCEPT ![r] = "finally"]
    /\ UNCHANGED <<inbox, running, tempId, fs, cmd, exit, err, delFail>>

\* the finally block; the handler returns and frees the thread
Cleanup(r) ==
    /\ pc[r] = "finally"
    /\ running = r
    /\ \E fail \in {"none", "input", "output"} :
         /\ fail = "input" => Exists(fs, InPath(r))
         /\ fail = "output" => Exists(fs, OutPath(r))
         /\ fs' = CleanupFs(fs, InPath(r), OutPath(r), fail)
         /\ delFail' = [delFail EXCEPT ![r] = fail]
    /\ trace' = [trace EXCEPT ![r] = Append(@, "cleanup")]
    /\ pc' = [pc EXCEPT ![r] = "done"]
    /\ running' = 0
    /\ UNCHANGED <<inbox, tempId, cmd, exit, err, resp>>

Handle(r, D) ==
    \/ Validate(r)
    \/ WriteInput(r)
    \/ ExecStart(r)
    \/ ExecExit(r, D)
    \/ ReadOutput(r)
    \/ Catch(r)
    \/ Cleanup(r)

\* one request, drawn from the whole input space
Next ==
    \/ Arrive(1, Contents)
    \/ Handle(1, Diags)

Spec == Init /\ [][Next]_vars

\* several requests in flight, the same payload sent to each handler
NextConc ==
    \E r \in Requests :
        \/ Arrive(r, ConcContents)
        \/ Handle(r, ConcDiags)

SpecConc == Init /\ [][NextConc]_vars

\* a queued handler is eventually run, and a running one takes its next step
\* (the external process is assumed to exit)
FairSpecConc == SpecConc /\ \A r \in Requests : WF_vars(Handle(r, ConcDiags))

\* ------------------------------------------------------------ properties
Count(seq, e) == Cardinality({i \in DOMAIN seq : seq[i] = e})

Occurs(seq, e) == \E i \in DOMAIN seq : seq[i] = e

\* every occurrence of b in seq comes after an occurrence of a
Precedes(seq, a, b) ==
    \A j \in DOMAIN seq : seq[j] = b => \E i \in 1..(j - 1) : seq[i] = a

IsUpload(r) == inbox[r].kind \in {"convert", "convert2"}

Assigned == {r \in Requests : tempId[r] # 0}

PathsOf(r) == {InPath(r), OutPath(r)}

\* the temp files of request r that the scratch directory holds
TempFilesOf(r) == {f \in fs : r \in Assigned /\ f.path \in PathsOf(r)}

C2_CleanupOnceAlways ==
    \A r \in Requests : pc[r] = "done" => Count(trace[r], "cleanup") = 1

\* C2 as amended: the cleanup step runs exactly once on every exit path of a
\* request that passed validation (success, conversion failure, exception),
\* and not at all when validation fails; it never runs twice.
C2_CleanupOnceAfterValidation ==
    \A r \in Requests :
        /\ Count(trace[r], "cleanup") <= 1
        /\ pc[r] = "done" =>
             Count(trace[r], "cleanup") =
                 IF ValidationError(inbox[r]) = "" THEN 1 ELSE 0

C2_Witness ==
    \E r \in Requests :
        pc[r] = "done" /\ exit[r] = 1 /\ Count(trace[r], "cleanup") = 1

\* C3: a request that carries a payload and a format string outside the
\* supported set is answered 400 with the fixed message, writes no temp file
\* and starts no external process, on /convert and on /convert-base64.
C3_InvalidFormatRejected ==
    \A r \in Requests :
        ( /\ pc[r] # "idle"
          /\ inbox[r].format \notin Supported \cup {Undefined, ""}
          /\ inbox[r].hasFile \/ (inbox[r].audio.t = "str" /\ inbox[r].audio.s # <<>>) )
        => /\ ~Occurs(trace[r], "write")
           /\ ~Occurs(trace[r], "exec")
           /\ pc[r] = "done" => resp[r] = <<JsonError(400, Text(InvalidFormatMsg))>>

\* C4 as stated: a /convert request without a file is answered 400 "No audio
\* file provided", whatever its format and bitrate.
C4_NoFileAlways ==
    \A r \in Requests :
        (pc[r] = "done" /\ IsUpload(r) /\ ~inbox[r].hasFile)
        => resp[r] = <<JsonError(400, Text(NoFileMsg))>>

\* C4 as amended: a /convert request without a file is answered 400 "No audio
\* file provided" when its format is absent, empty or supported, and 400 with
\* the invalid-format message otherwise (the format is validated first).
C4_NoFileAfterFormat ==
    \A r \in Requests :
        (pc[r] = "done" /\ IsUpload(r) /\ ~inbox[r].hasFile)
        => resp[r] = <<JsonError(400,
                         Text(IF inbox[r].format \in Supported \cup {Undefined, ""}
                              THEN NoFileMsg ELSE InvalidFormatMsg))>>

C4_Witness ==
    \E r \in Requests :
        /\ pc[r] = "done" /\ IsUpload(r) /\ ~inbox[r].hasFile
        /\ inbox[r].format = "mp3" /\ inbox[r].bitrate = "64k"
        /\ resp[r] = <<JsonError(400, Text(NoFileMsg))>>

\* the encoder of each target format, as the codec directive table gives it
EncoderOf(f) ==
    CASE f = "mp3" -> "libmp3lame"
      [] f = "ogg" -> "libvorbis"
      [] f = "opus" -> "libopus"
      [] f \in {"m4a", "aac"} -> "aac"

\* C5: in every handler, the encoder passed to the tool for a supported
\* target format is the table's, and the bitrate flag carries the request's
\* bitrate.
C5_EncoderByFormat ==
    \A r \in Requests :
        (cmd[r] # NoCmd /\ EffFormat(inbox[r]) \in Supported)
        => cmd[r] = [encoder |-> EncoderOf(EffFormat(inbox[r])),
                     bitrate |-> EffBitrate(inbox[r])]

\* C6: when /convert and /convert-base64 both answer 200 for the same input
\* bytes, supported format and bitrate, decoding the base64 answer's audio
\* gives the bytes of the binary answer.
C6_ModeEquivalence ==
    \A r1, r2 \in Requests :
        ( /\ pc[r1] = "done" /\ pc[r2] = "done"
          /\ IsUpload(r1) /\ inbox[r2].kind = "base64"
          /\ InputBytes(inbox[r1]) = InputBytes(inbox[r2])
          /\ EffFormat(inbox[r1]) = EffFormat(inbox[r2])
          /\ EffFormat(inbox[r1]) \in Supported
          /\ EffBitrate(inbox[r1]) = EffBitrate(inbox[r2])
          /\ resp[r1][1].status = 200 /\ resp[r2][1].status = 200 )
        => Base64Decode(resp[r2][1].audio) = resp[r1][1].body

DistinctIds == \A r1, r2 \in Assigned : r1 # r2 => tempId[r1] # tempId[r2]

\* the file at path p is the one request r put there
Intact(r, p) == \E f \in fs : f.path = p /\ f.owner = r

\* C7: requests with distinct identifiers have disjoint temp paths; and while
\* the identifiers are pairwise distinct every file lies on a path of its
\* owner alone, the input file of a handler between its write and its cleanup
\* is still its own (what the tool reads), and a file that a finished request
\* left behind because its delete failed is still there, untouched by the
\* writes and deletes of the other requests.
C7_NoCollision ==
    /\ \A r1, r2 \in Assigned :
         (r1 < r2 /\ tempId[r1] # tempId[r2]) => PathsOf(r1) \cap PathsOf(r2) = {}
    /\ DistinctIds =>
         /\ \A f \in fs : \A r \in Assigned : f.path \in PathsOf(r) <=> r = f.owner
         /\ \A r \in Assigned :
               /\ (pc[r] \in {"exec", "transcoding", "read"}
                   \/ (pc[r] = "done" /\ delFail[r] = "input"))
                  => /\ Intact(r, InPath(r))
                     /\ ReadFile(fs, InPath(r)) = InputBytes(inbox[r])
               /\ (pc[r] = "done" /\ delFail[r] = "output") => Intact(r, OutPath(r))

C7_Witness ==
    \E r1, r2 \in Assigned :
        /\ tempId[r1] # tempId[r2]
        /\ pc[r1] = "done" /\ delFail[r1] = "input" /\ Intact(r1, InPath(r1))
        /\ pc[r2] = "done" /\ Occurs(trace[r2], "read") /\ delFail[r2] = "none"

\* C8: a non-zero exit of the tool during /convert is answered by one 500
\* whose JSON body has error "Conversion failed", details and the input
\* object {originalName, mimetype, size}, and no audio.
C8_ConversionFailedBody ==
    \A r \in Requests :
        (IsUpload(r) /\ exit[r] = 1 /\ pc[r] \in {"finally", "done"})
        => /\ Len(resp[r]) = 1
           /\ resp[r][1].status = 500
           /\ resp[r][1].error = Text("Conversion failed")
           /\ {"details", "input"} \subseteq resp[r][1].keys
           /\ resp[r][1].input =
                [originalName |-> inbox[r].originalname,
                 mimetype |-> inbox[r].mimetype, size |-> Len(inbox[r].buffer)]
           /\ resp[r][1].body = <<>>

Transcoding == {r \in Requests : pc[r] = "transcoding"}

Queued == {r \in Requests : pc[r] = "queued"}

C10_PipelineOrder ==
    \A r \in Requests :
        /\ Precedes(trace[r], "write", "exec")
        /\ Precedes(trace[r], "exit", "read")
        /\ Occurs(trace[r], "read") => exit[r] = 0
        /\ Len(resp[r]) <= 1
        /\ Len(resp[r]) = Count(trace[r], "respond")
        /\ pc[r] = "done" => Len(resp[r]) = 1
        /\ \A i \in DOMAIN resp[r] :
             resp[r][i].status = 200 => exit[r] = 0 /\ Occurs(trace[r], "read")
        /\ Precedes(trace[r], "respond", "cleanup")
        /\ \A i \in DOMAIN trace[r] : trace[r][i] = "cleanup" => i = Len(trace[r])

C10_Witness ==
    \E r \in Requests :
        /\ pc[r] = "done" /\ resp[r][1].status = 200
        /\ trace[r] = <<"write", "exec", "exit", "read", "respond", "cleanup">>

====
